---- MODULE Spec2Model ----
(***************************************************************************)
(* Model of the FindCare API (src/server.js): the GET /map_feed handler,   *)
(* its helpers isZip, parseLocation and esc, the limit clamp, the bound    *)
(* query parameters, the feed item formatter and the response envelope.   *)
(*                                                                         *)
(* JavaScript strings are modelled as sequences of one-character strings,  *)
(* so that trim, split, slice, toUpperCase, replace and template           *)
(* interpolation are computed character by character.  The values          *)
(* undefined and null are the one-element sequences Undefined and Null,    *)
(* whose element is not a character.                                       *)
(***************************************************************************)
EXTENDS Integers, Sequences, FiniteSets, TLC

VARIABLES
    arg,          \* input handed to the pure function under check
    out,          \* its result
    phase,        \* "in" before the function is applied, "done" after
    poolPromise,  \* the module-level promise of sql.connect: [state, message]
    pc,           \* per request: where its handler invocation stands
    req,          \* per request: req.query
    env,          \* per invocation frame: the handler's const bindings
    inputs,       \* per request: the parameters bound on its sql Request
    reply,        \* per request: what its two awaits yielded
    queries,      \* per request: how many times its query was issued
    sent,         \* per request: how many responses were written
    res           \* per request: the response written

pureVars == <<arg, out, phase>>

srvVars == <<poolPromise, pc, req, env, inputs, reply, queries, sent, res>>

vars == <<arg, out, phase, poolPromise, pc, req, env, inputs, reply, queries, sent, res>>

-----------------------------------------------------------------------------
(* Bounds of the model.                                                    *)

MaxLimitLen == 3
MaxLocLen == 4
MaxFieldLen == 2
MaxRows == 3
MaxLongRows == 11
NumRequests == 2
MaxDbRows == 2

-----------------------------------------------------------------------------
(* JavaScript values and string primitives.                                *)

Undefined == <<"undefined">>
Null == <<"null">>
NoResult == <<"none">>

\* ToBoolean on the values the handler sees: undefined, null and "" are falsy.
Truthy(v) == v \notin {Undefined, Null, <<>>}

\* a || b
Or(a, b) == IF Truthy(a) THEN a ELSE b

StringsUpTo(A, n) == UNION {[1..k -> A] : k \in 0..n}

WhiteSpace == {" ", "\t", "\n"}

RECURSIVE TrimStart(_)
TrimStart(s) ==
    IF s # <<>> /\ Head(s) \in WhiteSpace THEN TrimStart(Tail(s)) ELSE s

RECURSIVE TrimEnd(_)
TrimEnd(s) ==
    IF s # <<>> /\ s[Len(s)] \in WhiteSpace
    THEN TrimEnd(SubSeq(s, 1, Len(s) - 1))
    ELSE s

\* String.prototype.trim
Trim(s) == TrimEnd(TrimStart(s))

\* String.prototype.slice(0, n)
Slice0(s, n) == SubSeq(s, 1, IF Len(s) < n THEN Len(s) ELSE n)

Digits == {"0", "1", "2", "3", "4", "5", "6", "7", "8", "9"}

DigitVal(c) ==
    CASE c = "0" -> 0 [] c = "1" -> 1 [] c = "2" -> 2 [] c = "3" -> 3
      [] c = "4" -> 4 [] c = "5" -> 5 [] c = "6" -> 6 [] c = "7" -> 7
      [] c = "8" -> 8 [] c = "9" -> 9
      [] c \in {"a", "A"} -> 10 [] c \in {"b", "B"} -> 11
      [] c \in {"c", "C"} -> 12 [] c \in {"d", "D"} -> 13
      [] c \in {"e", "E"} -> 14 [] c \in {"f", "F"} -> 15
      [] OTHER -> 99

Min(a, b) == IF a < b THEN a ELSE b
Max(a, b) == IF a > b THEN a ELSE b

-----------------------------------------------------------------------------
(* The state of the server before any request: the pool promise pending,   *)
(* no handler invocation started.                                          *)

Requests == 1..NumRequests

NoQuery == [q |-> Undefined, category |-> Undefined, location |-> Undefined,
            limit |-> Undefined]

NoLocals == [q |-> Undefined, category |-> Undefined, lim |-> 0,
             zip5 |-> Undefined, city |-> Undefined, state |-> Undefined]

NoInputs == [limit |-> 0, category |-> Null, q |-> Null, zip5 |-> Null,
             city |-> Null, state |-> Null]

NoReply == [pool |-> "none", db |-> "none",
            result |-> [present |-> FALSE, recordset |-> <<>>],
            message |-> <<>>]

NoResponse == [status |-> 0, body |-> [stat |-> <<>>]]

ServerIdle ==
    /\ poolPromise = [state |-> "pending", message |-> <<>>]
    /\ pc = [r \in Requests |-> "idle"]
    /\ req = [r \in Requests |-> NoQuery]
    /\ env = [r \in Requests |-> NoLocals]
    /\ inputs = [r \in Requests |-> NoInputs]
    /\ reply = [r \in Requests |-> NoReply]
    /\ queries = [r \in Requests |-> 0]
    /\ sent = [r \in Requests |-> 0]
    /\ res = [r \in Requests |-> NoResponse]

-----------------------------------------------------------------------------
(* parseInt(string) with no radix argument (ECMAScript parseInt):          *)
(* leading white space is skipped, one sign is read, a 0x / 0X prefix      *)
(* selects radix 16, and the longest prefix of digits of the radix is the  *)
(* value; no digit at all is NaN.  The result is [nan, n].                 *)

RECURSIVE DigitPrefix(_, _)
DigitPrefix(s, radix) ==
    IF s # <<>> /\ DigitVal(Head(s)) < radix
    THEN <<Head(s)>> \o DigitPrefix(Tail(s), radix)
    ELSE <<>>

RECURSIVE DigitsValue(_, _, _)
DigitsValue(s, radix, acc) ==
    IF s = <<>> THEN acc
    ELSE DigitsValue(Tail(s), radix, acc * radix + DigitVal(Head(s)))

parseInt(s) ==
    LET t == TrimStart(s)
        neg == t # <<>> /\ Head(t) = "-"
        u == IF t # <<>> /\ Head(t) \in {"-", "+"} THEN Tail(t) ELSE t
        hex == Len(u) >= 2 /\ u[1] = "0" /\ u[2] \in {"x", "X"}
        radix == IF hex THEN 16 ELSE 10
        body == IF hex THEN SubSeq(u, 3, Len(u)) ELSE u
        ds == DigitPrefix(body, radix)
        v == DigitsValue(ds, radix, 0)
    IN  IF ds = <<>> THEN [nan |-> TRUE, n |-> 0]
        ELSE [nan |-> FALSE, n |-> IF neg THEN 0 - v ELSE v]

\* parseInt(limit) || 20 : NaN and 0 are falsy
OrNumber(p, d) == IF p.nan \/ p.n = 0 THEN d ELSE p.n

\* Faulty variant: the lower clamp Math.max(1, ...) is dropped.
LimitClampNoFloor(limit) ==
    Min(OrNumber(parseInt(IF limit = Undefined THEN <<"2", "0">> ELSE limit), 20), 200)

\* const { limit = "20" } = req.query;
\* const lim = Math.max(1, Math.min(parseInt(limit) || 20, 200));
LimitClamp(limit) ==
    LET l == IF limit = Undefined THEN <<"2", "0">> ELSE limit
    IN  Max(1, Min(OrNumber(parseInt(l), 20), 200))

-----------------------------------------------------------------------------
(* The limit clamp as a pure function of the `limit` query parameter.      *)

LimitAlphabet == {"0", "2", "5", "-", "+", " ", "a", "x"}

LimitInputs ==
    StringsUpTo(LimitAlphabet, MaxLimitLen)
        \cup {Undefined, <<"a", "b", "c">>, <<"1", "2", ".", "5">>,
              <<"2", "0", "0">>, <<"2", "0", "1">>, <<"-", "2", "0", "1">>,
              <<"0", "x", "f", "f">>, <<"1", "e", "3">>}

InitLimit ==
    /\ arg \in LimitInputs
    /\ out = NoResult
    /\ phase = "in"
    /\ ServerIdle

ApplyLimit ==
    /\ phase = "in"
    /\ out' = LimitClamp(arg)
    /\ phase' = "done"
    /\ UNCHANGED <<arg, srvVars>>

NextLimit == ApplyLimit

SpecLimit == InitLimit /\ [][NextLimit]_vars

\* C1: for every value of the limit parameter (absent, empty, non-numeric,
\* negative, zero, in range, above 200) the row limit bound to the query is
\* an integer lim with 1 <= lim <= 200.
LimitInRange == phase = "done" => out \in 1..200

\* Witness of C1: the negative input "-5" has been clamped to 1.
LimitInRangeWitness ==
    /\ phase = "done"
    /\ arg = <<"-", "5">>
    /\ out = 1

\* C2 as stated: the row limit is the parsed integer clamped to [1,200], and
\* 20 is used only when the input does not parse as an integer; so "0" gives 1.
LimitIsClampedParse ==
    phase = "done" /\ arg # Undefined =>
        LET p == parseInt(arg)
        IN  out = IF p.nan THEN 20 ELSE Max(1, Min(p.n, 200))

-----------------------------------------------------------------------------
(* isZip and parseLocation.                                                *)

LowerLetters == <<"a", "b", "c", "d", "e", "f", "g", "h", "i", "j", "k", "l", "m",
                  "n", "o", "p", "q", "r", "s", "t", "u", "v", "w", "x", "y", "z">>
UpperLetters == <<"A", "B", "C", "D", "E", "F", "G", "H", "I", "J", "K", "L", "M",
                  "N", "O", "P", "Q", "R", "S", "T", "U", "V", "W", "X", "Y", "Z">>

UpperChar(c) ==
    IF \E i \in 1..26 : LowerLetters[i] = c
    THEN UpperLetters[CHOOSE i \in 1..26 : LowerLetters[i] = c]
    ELSE c

\* String.prototype.toUpperCase
toUpperCase(s) == [i \in 1..Len(s) |-> UpperChar(s[i])]

AllDigits(s) == \A i \in 1..Len(s) : s[i] \in Digits

\* Faulty variant: the optional "-dddd" group of the pattern is missing.
isZipFiveOnly(s) ==
    LET t == Trim(Or(s, <<>>))
    IN  Len(t) = 5 /\ AllDigits(t)

\* /^\d{5}(-\d{4})?$/.test((s || "").trim())
isZip(s) ==
    LET t == Trim(Or(s, <<>>))
    IN  \/ Len(t) = 5 /\ AllDigits(t)
        \/ /\ Len(t) = 10
           /\ AllDigits(SubSeq(t, 1, 5))
           /\ t[6] = "-"
           /\ AllDigits(SubSeq(t, 7, 10))

\* String.prototype.split(","): the segments between the commas
RECURSIVE SplitComma(_, _)
SplitComma(s, cur) ==
    IF s = <<>> THEN <<cur>>
    ELSE IF Head(s) = "," THEN <<cur>> \o SplitComma(Tail(s), <<>>)
    ELSE SplitComma(Tail(s), Append(cur, Head(s)))

\* const city = cityPart || null;
CityOf(cityPart) == Or(cityPart, Null)

\* Faulty variant: the state part is truncated but not uppercased.
StateOfNoUpper(statePart) == Or(Slice0(Or(statePart, <<>>), 2), Null)

\* const state = (statePart || "").toUpperCase().slice(0, 2) || null;
StateOf(statePart) == Or(Slice0(toUpperCase(Or(statePart, <<>>)), 2), Null)

\* parseLocation(input); a key the returned object does not have is Undefined
parseLocation(input) ==
    IF ~Truthy(input)
    THEN [zip5 |-> Undefined, city |-> Undefined, state |-> Undefined]
    ELSE LET raw == Trim(input)
             parts == SplitComma(raw, <<>>)
             trimmed == [i \in 1..Len(parts) |-> Trim(Or(parts[i], <<>>))]
             cityPart == trimmed[1]
             statePart == IF Len(trimmed) >= 2 THEN trimmed[2] ELSE Undefined
         IN  IF isZip(raw)
             THEN [zip5 |-> Slice0(raw, 5), city |-> Undefined, state |-> Undefined]
             ELSE [zip5 |-> Undefined, city |-> CityOf(cityPart),
                   state |-> StateOf(statePart)]

\* request.input("category", ..., category || null);
BindCategory(category) == Or(category, Null)

\* request.input("q", ..., q ? `%${q}%` : null);
BindText(q) == IF Truthy(q) THEN <<"%">> \o q \o <<"%">> ELSE Null

\* The filter parameters bound to the query besides the limit.
BindFilters(q, category, location) ==
    LET loc == parseLocation(location)
    IN  [category |-> BindCategory(category),
         q |-> BindText(q),
         zip5 |-> Or(loc.zip5, Null),
         city |-> Or(loc.city, Null),
         state |-> Or(loc.state, Null)]

-----------------------------------------------------------------------------
(* parseLocation and the bound filters as a pure function of the raw       *)
(* query {q, category, location}.                                          *)

LocAlphabet == {"7", ",", " ", "a", "T"}

ZipDigits == {"0", "7"}

ZipTails ==
    {<<>>, <<"-", "0", "7", "0", "7">>, <<"-", "7", "0", "0", "0">>,
     <<"-", "7", "0", "7">>, <<"-">>, <<"7">>, <<"-", "7", "0", "7", "0", "7">>,
     <<"7", "0", "7", "0", "7">>, <<"-", "7", "0", "7", "a">>, <<",", "T", "x">>}

Pads == {<<>>, <<" ">>, <<"\t", " ">>}

ZipLike ==
    {l \o d \o t \o r : l \in Pads, d \in [1..5 -> ZipDigits], t \in ZipTails,
                        r \in Pads}

LocationInputs ==
    StringsUpTo(LocAlphabet, MaxLocLen) \cup ZipLike
        \cup {Undefined,
              <<"7", "3", "3", "0", "1">>,
              <<"D", "a", "l", "l", "a", "s", ",", " ", "t", "x">>,
              <<"A", "u", "s", "t", "i", "n">>,
              <<"a", ",", " ", "t", "e", "x", "a", "s">>,
              <<"a", ",", "t", " ", "x">>,
              <<"a", ",", "b", ",", "c">>}

TextInputs == {Undefined, <<>>, <<"a">>, <<" ", "a", " ">>}

CategoryInputs == {Undefined, <<>>, <<"c">>, <<" ", "c", " ">>}

InitFilter ==
    /\ arg \in [q : TextInputs, category : CategoryInputs, location : LocationInputs]
    /\ out = NoResult
    /\ phase = "in"
    /\ ServerIdle

ApplyFilter ==
    /\ phase = "in"
    /\ out' = [parsed |-> parseLocation(arg.location),
               bound |-> BindFilters(arg.q, arg.category, arg.location)]
    /\ phase' = "done"
    /\ UNCHANGED <<arg, srvVars>>

NextFilter == ApplyFilter

SpecFilter == InitFilter /\ [][NextFilter]_vars

\* The shape "5 digits optionally followed by a dash and 4 digits".
FiveDigits(s) == Len(s) = 5 /\ \A i \in 1..5 : s[i] \in Digits

ZipShaped(s) ==
    \/ FiveDigits(s)
    \/ Len(s) = 10 /\ FiveDigits(SubSeq(s, 1, 5)) /\ s[6] = "-"
                   /\ \A i \in 7..10 : s[i] \in Digits

Trimmed(s) == s = <<>> \/ (s[1] \notin WhiteSpace /\ s[Len(s)] \notin WhiteSpace)

\* C3: for every location that after trimming is 5 digits optionally followed
\* by a dash and 4 digits, parseLocation returns zip5 = the first 5 digits
\* and no city and no state, and the query is bound with zip5 set and city
\* and state null.
ZipLocationParsed ==
    phase = "done" /\ arg.location # Undefined /\ ZipShaped(Trim(arg.location)) =>
        /\ out.parsed.zip5 = SubSeq(Trim(arg.location), 1, 5)
        /\ out.parsed.city = Undefined
        /\ out.parsed.state = Undefined
        /\ out.bound.zip5 = SubSeq(Trim(arg.location), 1, 5)
        /\ out.bound.city = Null
        /\ out.bound.state = Null

\* Witness of C3: a padded ZIP+4 location has been parsed and bound.
ZipLocationParsedWitness ==
    /\ phase = "done"
    /\ arg.location = <<" ", "7", "0", "7", "0", "7", "-", "0", "7", "0", "7", " ">>
    /\ out.bound.zip5 = <<"7", "0", "7", "0", "7">>

Populated(v) == v \notin {Undefined, Null}

\* C4 as stated: zip5 and the city/state pair are never both populated, zip5
\* when present is exactly 5 digits, and state when present is exactly 2
\* uppercase letters.
ParsedLocationInvariant ==
    phase = "done" =>
        LET p == out.parsed
        IN  /\ ~(Populated(p.zip5) /\ (Populated(p.city) \/ Populated(p.state)))
            /\ Populated(p.zip5) => FiveDigits(p.zip5)
            /\ Populated(p.state) =>
                   /\ Len(p.state) = 2
                   /\ \A i \in 1..2 : \E k \in 1..26 : p.state[i] = UpperLetters[k]

\* C4 amended: as above, but state when present is 1 or 2 characters long
\* and contains no lowercase letter a-z (it need not be a letter at all).
ParsedLocationInvariantAmended ==
    phase = "done" =>
        LET p == out.parsed
        IN  /\ ~(Populated(p.zip5) /\ (Populated(p.city) \/ Populated(p.state)))
            /\ Populated(p.zip5) => FiveDigits(p.zip5)
            /\ Populated(p.state) =>
                   /\ Len(p.state) \in 1..2
                   /\ \A i \in 1..Len(p.state) :
                          \A k \in 1..26 : p.state[i] # LowerLetters[k]

\* Witness of C4: a city/state location whose state part is lowercase and
\* longer than 2 characters has been parsed.
ParsedLocationInvariantWitness ==
    /\ phase = "done"
    /\ arg.location = <<"a", ",", " ", "t", "e", "x", "a", "s">>
    /\ out.parsed.state = <<"T", "E">>
    /\ out.parsed.city = <<"a">>

\* C9 as stated: each bound filter value other than the limit is null or a
\* non-empty string with no leading or trailing white space.
BoundFiltersTrimmed ==
    phase = "done" =>
        \A f \in {"category", "q", "zip5", "city", "state"} :
            \/ out.bound[f] = Null
            \/ out.bound[f] # <<>> /\ Trimmed(out.bound[f])


-----------------------------------------------------------------------------
(* esc and the feed item formatter.                                        *)

RECURSIVE ReplaceAll(_, _, _)
\* String.prototype.replace(/c/g, rep)
ReplaceAll(s, c, rep) ==
    IF s = <<>> THEN <<>>
    ELSE (IF Head(s) = c THEN rep ELSE <<Head(s)>>) \o ReplaceAll(Tail(s), c, rep)

\* Faulty variant: the replacement of the single quote is missing.
escNoApostrophe(s) ==
    ReplaceAll(ReplaceAll(ReplaceAll(ReplaceAll(
        Or(s, <<>>),
        "&", <<"&", "a", "m", "p", ";">>),
        "<", <<"&", "l", "t", ";">>),
        ">", <<"&", "g", "t", ";">>),
        "\"", <<"&", "q", "u", "o", "t", ";">>)

\* esc(s): String(s || "") with &, <, >, " and ' replaced in that order
esc(s) ==
    ReplaceAll(ReplaceAll(ReplaceAll(ReplaceAll(ReplaceAll(
        Or(s, <<>>),
        "&", <<"&", "a", "m", "p", ";">>),
        "<", <<"&", "l", "t", ";">>),
        ">", <<"&", "g", "t", ";">>),
        "\"", <<"&", "q", "u", "o", "t", ";">>),
        "'", <<"&", "#", "3", "9", ";">>)

RECURSIVE ToDecimal(_)
\* the decimal text of a non-negative integer, as template interpolation gives
ToDecimal(n) ==
    IF n < 10 THEN <<SubSeq(<<"0", "1", "2", "3", "4", "5", "6", "7", "8", "9">>,
                            n + 1, n + 1)[1]>>
    ELSE ToDecimal(n \div 10) \o ToDecimal(n % 10)

RECURSIVE JoinWith(_, _)
\* Array.prototype.join(sep) on an array of strings
JoinWith(parts, sep) ==
    IF parts = <<>> THEN <<>>
    ELSE IF Len(parts) = 1 THEN parts[1]
    ELSE parts[1] \o sep \o JoinWith(Tail(parts), sep)

\* String(v) of a column value: null prints as "null"
StringOf(v) == IF v = Null THEN <<"n", "u", "l", "l">> ELSE v

UnnamedFacility == <<"U", "n", "n", "a", "m", "e", "d", " ", "F", "a", "c", "i", "l", "i",
      "t", "y">>
HealthcareFacility == <<"H", "e", "a", "l", "t", "h", "c", "a", "r", "e", " ", "F", "a", "c",
      "i", "l", "i", "t", "y">>
FacilityUrl == <<"h", "t", "t", "p", "s", ":", "/", "/", "f", "i", "n", "d", "c", "a",
      "r", "e", ".", "d", "e", "v", "/", "f", "a", "c", "i", "l", "i", "t",
      "y", "/">>
DefaultIcon == <<"h", "t", "t", "p", "s", ":", "/", "/", "f", "i", "n", "d", "c", "a",
      "r", "e", ".", "d", "e", "v", "/", "i", "c", "o", "n", "s", "/", "d",
      "e", "f", "a", "u", "l", "t", ".", "p", "n", "g">>
PinIcon == <<"h", "t", "t", "p", "s", ":", "/", "/", "f", "c", "a", "r", "e", ".",
      "i", "o", "/", "f", "i", "l", "e", "s", "/", "f", "i", "n", "d", "c",
      "a", "r", "e", "_", "m", "a", "p", "_", "i", "c", "o", "n", "_", "r",
      "e", "d", ".", "p", "n", "g">>
PinColor == <<"#", "0", "0", "7", "4", "D", "9">>
MarkupOpen == <<"<", "d", "i", "v", ">", "<", "s", "t", "r", "o", "n", "g", ">">>
MarkupAfterTitle == <<"<", "/", "s", "t", "r", "o", "n", "g", ">", "<", "b", "r", ">">>
MarkupLinkOpen == <<"<", "b", "r", ">", "<", "a", " ", "h", "r", "e", "f", "=", "\"">>
MarkupClose == <<"\"", " ", "t", "a", "r", "g", "e", "t", "=", "\"", "_", "b", "l", "a",
      "n", "k", "\"", ">", "V", "i", "e", "w", " ", "D", "e", "t", "a", "i",
      "l", "s", "<", "/", "a", ">", "<", "/", "d", "i", "v", ">">>

\* Faulty variant: the title is the organization name with no fallback.
TitleOfNoFallback(r) == StringOf(r.Provider_Organization_Name)

\* const title = r.Provider_Organization_Name || "Unnamed Facility";
TitleOf(r) == Or(r.Provider_Organization_Name, UnnamedFacility)

\* [city, state].filter(Boolean).join(", ")
CityStOf(r) ==
    JoinWith(SelectSeq(<<r.Provider_Practice_City, r.Provider_Practice_State>>, Truthy),
             <<",", " ">>)

\* `${r.Category || "Healthcare Facility"}${citySt ? ` in ${citySt}` : ""}`
SummaryOf(r) ==
    Or(r.Category, HealthcareFacility)
        \o (IF Truthy(CityStOf(r)) THEN <<" ", "i", "n", " ">> \o CityStOf(r) ELSE <<>>)

\* Faulty variant: the item number is the zero-based array index.
ItemNumberZeroBased(idx) == idx

\* idx + 1, the item's number in id, url and content
ItemNumber(idx) == idx + 1

\* the content template literal
ContentOf(r, idx) ==
    MarkupOpen \o esc(TitleOf(r)) \o MarkupAfterTitle
        \o esc(Or(r.Category, <<>>)) \o <<" ", "-", " ">> \o esc(CityStOf(r))
        \o MarkupLinkOpen \o FacilityUrl \o ToDecimal(ItemNumber(idx))
        \o MarkupClose

\* the callback of (result.recordset || []).map((r, idx) => ...)
FormatItem(r, idx) ==
    [id |-> ItemNumber(idx),
     title |-> TitleOf(r),
     summary |-> SummaryOf(r),
     address |-> Or(r.Full_Address, <<>>),
     latitude |-> Trim(StringOf(r.Latitude)),
     longitude |-> Trim(StringOf(r.Longitude)),
     type |-> <<"m", "a", "p", "s">>,
     subtype |-> <<"c", "u", "s", "t", "o", "m">>,
     pinIconUrl |-> PinIcon,
     pinIconColor |-> PinColor,
     pinIconWidth |-> 150,
     pinIconHeight |-> 300,
     url |-> FacilityUrl \o ToDecimal(ItemNumber(idx)),
     thumbnail |-> DefaultIcon,
     smallThumbnail |-> DefaultIcon,
     largeThumbnail |-> DefaultIcon,
     content |-> ContentOf(r, idx)]

\* (result.recordset || []).map(...)
\* a result object without a recordset has present = FALSE
FormatItems(result) ==
    LET rows == IF result.present THEN result.recordset ELSE <<>>
    IN  [i \in 1..Len(rows) |-> FormatItem(rows[i], i - 1)]

-----------------------------------------------------------------------------
(* The formatter as a pure function of the record set.                     *)

FieldAlphabet == {"a", "&", "<", ">", "\"", "'"}

ScriptTag == <<"<", "s", "c", "r", "i", "p", "t", ">">>
Plano == <<"P", "l", "a", "n", "o">>

NameValues == StringsUpTo(FieldAlphabet, MaxFieldLen) \cup {Null, ScriptTag}

CategoryValues == {Null, <<>>, <<"c">>, ScriptTag, <<"&", "l", "t", ";">>}

CityValues == {Null, <<>>, Plano, <<"<", "&">>}

StateValues == {Null, <<>>, <<"T", "X">>, <<"'">>}

Row(name, category, city, state) ==
    [Category |-> category,
     Provider_Organization_Name |-> name,
     Provider_Practice_City |-> city,
     Provider_Practice_State |-> state,
     Full_Address |-> IF city = Null THEN Null ELSE <<"1", " ", "a">>,
     Latitude |-> <<"3", "0", ".", "2">>,
     Longitude |-> <<"-", "9", "7", ".", "7", " ">>]

Records ==
    {Row(n, c, ci, st) : n \in NameValues, c \in CategoryValues,
                         ci \in CityValues, st \in StateValues}

FewRecords ==
    {Row(<<"a">>, <<"c">>, Plano, <<"T", "X">>),
     Row(<<>>, Null, Plano, <<"T", "X">>),
     Row(ScriptTag, ScriptTag, Null, Null)}

RecordSets ==
    {<<r>> : r \in Records}
        \cup StringsUpTo(FewRecords, MaxRows)
        \cup {[i \in 1..n |-> Row(<<"a">>, <<"c">>, Null, <<"T", "X">>)] :
                  n \in 1..MaxLongRows}

QueryResults ==
    {[present |-> TRUE, recordset |-> rs] : rs \in RecordSets}
        \cup {[present |-> FALSE, recordset |-> <<>>]}

InitFormat ==
    /\ arg \in QueryResults
    /\ out = NoResult
    /\ phase = "in"
    /\ ServerIdle

ApplyFormat ==
    /\ phase = "in"
    /\ out' = FormatItems(arg)
    /\ phase' = "done"
    /\ UNCHANGED <<arg, srvVars>>

NextFormat == ApplyFormat

SpecFormat == InitFormat /\ [][NextFormat]_vars

MarkupAnchor == <<"<", "a", " ", "h", "r", "e", "f", "=", "\"">>
MarkupLinkTarget == <<"\"", " ", "t", "a", "r", "g", "e", "t", "=", "\"", "_", "b", "l", "a",
      "n", "k", "\"", ">">>
EscapedSample == <<"&", "#", "3", "9", ";", "&", "a", "m", "p", ";", "<", "/", "s", "t",
      "r", "o", "n", "g", ">", "<", "b", "r", ">", "&", "l", "t", ";", "s",
      "c", "r", "i", "p", "t", "&", "g", "t", ";", " ", "-", " ", "&", "l",
      "t", ";", "&", "a", "m", "p", ";">>
PlanoSummary == <<"H", "e", "a", "l", "t", "h", "c", "a", "r", "e", " ", "F", "a", "c",
      "i", "l", "i", "t", "y", " ", "i", "n", " ", "P", "l", "a", "n", "o",
      ",", " ", "T", "X">>

InputRows == arg.recordset

Count(s, c) == Cardinality({i \in 1..Len(s) : s[i] = c})

StartsAt(s, i, t) == i + Len(t) - 1 <= Len(s) /\ SubSeq(s, i, i + Len(t) - 1) = t

Contains(s, t) == \E i \in 1..Len(s) : StartsAt(s, i, t)

Entities ==
    {<<"&", "a", "m", "p", ";">>, <<"&", "l", "t", ";">>, <<"&", "g", "t", ";">>,
     <<"&", "q", "u", "o", "t", ";">>, <<"&", "#", "3", "9", ";">>}

EntityChar(e) ==
    CASE e = <<"&", "a", "m", "p", ";">> -> "&"
      [] e = <<"&", "l", "t", ";">> -> "<"
      [] e = <<"&", "g", "t", ";">> -> ">"
      [] e = <<"&", "q", "u", "o", "t", ";">> -> "\""
      [] e = <<"&", "#", "3", "9", ";">> -> "'"

\* what an HTML parser reads back from text that uses the five entities: each
\* entity becomes its character, every other character stays
Decode(s) ==
    LET IsEntity(j) == \E e \in Entities : StartsAt(s, j, e)
        EntityAt(j) == CHOOSE e \in Entities : StartsAt(s, j, e)
        InEntity(j) ==
            \E k \in Max(1, j - 5)..(j - 1) :
                IsEntity(k) /\ j < k + Len(EntityAt(k))
        Kept(j) == ~InEntity(j)
        keep == SelectSeq([j \in 1..Len(s) |-> j], Kept)
    IN  [i \in 1..Len(keep) |->
            IF IsEntity(keep[i]) THEN EntityChar(EntityAt(keep[i])) ELSE s[keep[i]]]

Present(v) == v \notin {Undefined, Null, <<>>}

FieldText(v) == IF Present(v) THEN v ELSE <<>>

\* the city/state text of C7: the present ones of city and state joined by ", "
CityStateText(r) ==
    LET c == r.Provider_Practice_City
        s == r.Provider_Practice_State
    IN  CASE Present(c) /\ Present(s) -> c \o <<",", " ">> \o s
          [] Present(c) /\ ~Present(s) -> c
          [] ~Present(c) /\ Present(s) -> s
          [] OTHER -> <<>>

\* C5: every item's content is the fixed markup around the escaped field
\* texts: between the opening <div><strong> and the closing link, the only
\* raw < and > are those of </strong><br>, there is no raw " or ', every &
\* starts one of the five entities, and decoding the entities gives back
\* exactly the organization name, category and city/state text (so every &
\* of a field is &amp;); no <script> tag appears anywhere in content.
ContentEscaped ==
    phase = "done" =>
        \A i \in 1..Len(out) :
            LET c == out[i].content
                r == InputRows[i]
                pre == MarkupOpen
                suf == MarkupLinkOpen \o FacilityUrl \o ToDecimal(i) \o MarkupClose
                mid == SubSeq(c, Len(pre) + 1, Len(c) - Len(suf))
                name == IF Present(r.Provider_Organization_Name)
                        THEN r.Provider_Organization_Name ELSE UnnamedFacility
            IN  /\ Len(c) >= Len(pre) + Len(suf)
                /\ StartsAt(c, 1, pre)
                /\ StartsAt(c, Len(c) - Len(suf) + 1, suf)
                /\ Count(mid, "<") = 2
                /\ Count(mid, ">") = 2
                /\ Count(mid, "\"") = 0
                /\ Count(mid, "'") = 0
                /\ \A j \in 1..Len(mid) :
                       mid[j] = "&" => \E e \in Entities : StartsAt(mid, j, e)
                /\ Decode(mid) = name \o MarkupAfterTitle \o FieldText(r.Category)
                                    \o <<" ", "-", " ">> \o CityStateText(r)
                /\ ~Contains(c, ScriptTag)

\* Witness of C5: a record whose name and category are <script> and one whose
\* fields hold &, ' and " have been formatted.
ContentEscapedWitness ==
    /\ phase = "done"
    /\ Len(out) = 1
    /\ arg.recordset[1].Provider_Organization_Name = <<"'", "&">>
    /\ arg.recordset[1].Category = ScriptTag
    /\ arg.recordset[1].Provider_Practice_City = <<"<", "&">>
    /\ Contains(out[1].content, EscapedSample)

\* C6: the items' ids are exactly 1..N in result order, and each item's url
\* and the link inside its content carry that same id.
ItemIdsAreRanks ==
    phase = "done" =>
        /\ Len(out) = Len(InputRows)
        /\ \A i \in 1..Len(out) :
               /\ out[i].id = i
               /\ Len(out[i].url) > Len(FacilityUrl)
               /\ SubSeq(out[i].url, 1, Len(FacilityUrl)) = FacilityUrl
               /\ LET n == SubSeq(out[i].url, Len(FacilityUrl) + 1, Len(out[i].url))
                  IN  /\ \A j \in 1..Len(n) : n[j] \in Digits
                      /\ n[1] # "0"
                      /\ DigitsValue(n, 10, 0) = i
               /\ Contains(out[i].content,
                           MarkupAnchor \o out[i].url \o MarkupLinkTarget)

\* Witness of C6: a result of 11 records has been formatted, so ids of one
\* and of two digits occur.
ItemIdsAreRanksWitness ==
    /\ phase = "done"
    /\ Len(out) = 11
    /\ out[11].id = 11
    /\ out[11].url = FacilityUrl \o <<"1", "1">>

\* C7: title is the organization name or "Unnamed Facility" when it is absent
\* or empty; summary is the category (or "Healthcare Facility") followed by
\* " in " and the city/state text, the suffix omitted when city and state are
\* both absent.
TitleAndSummary ==
    phase = "done" =>
        \A i \in 1..Len(out) :
            LET r == InputRows[i]
                cat == IF Present(r.Category) THEN r.Category ELSE HealthcareFacility
                cs == CityStateText(r)
            IN  /\ out[i].title = IF Present(r.Provider_Organization_Name)
                                  THEN r.Provider_Organization_Name
                                  ELSE UnnamedFacility
                /\ out[i].summary =
                       IF cs = <<>> THEN cat ELSE cat \o <<" ", "i", "n", " ">> \o cs

\* Witness of C7: name "", category null, city "Plano", state "TX" has been
\* formatted to "Unnamed Facility" and "Healthcare Facility in Plano, TX".
TitleAndSummaryWitness ==
    /\ phase = "done"
    /\ Len(out) = 1
    /\ arg.recordset[1].Provider_Organization_Name = <<>>
    /\ arg.recordset[1].Category = Null
    /\ out[1].title = UnnamedFacility
    /\ out[1].summary = PlanoSummary


-----------------------------------------------------------------------------
(* GET /map_feed: the handler as three atomic segments separated by its     *)
(* two awaits, run for several requests at once over the one pool promise.  *)

\* a query parameter given more than once reaches the handler as an array
ArrayValue == <<"array">>

TrimTypeError == <<"i", "n", "p", "u", "t", ".", "t", "r", "i", "m", " ", "i", "s", " ",
      "n", "o", "t", " ", "a", " ", "f", "u", "n", "c", "t", "i", "o", "n">>
InternalServerError == <<"I", "n", "t", "e", "r", "n", "a", "l", " ", "s", "e", "r", "v", "e",
      "r", " ", "e", "r", "r", "o", "r">>
StatOk == <<"o", "k">>
StatError == <<"e", "r", "r", "o", "r">>
GeneratedIn == <<"0", ".", "0", "1", "s">>

RawQueries ==
    {NoQuery,
     [q |-> <<"a">>, category |-> <<" ", "c">>,
      location |-> <<"7", "0", "7", "0", "7", "-", "0", "0", "0", "0">>,
      limit |-> <<"0">>],
     [q |-> <<>>, category |-> <<"c">>, location |-> <<"a", ",", "t", "x">>,
      limit |-> <<"1">>],
     [q |-> Undefined, category |-> Undefined, location |-> ArrayValue,
      limit |-> <<"5", "0", "0">>]}

ErrorMessages == {<<>>, <<"t", "i", "m", "e", "o", "u", "t">>}

DbRecords ==
    {Row(<<"a">>, <<"c">>, Plano, <<"T", "X">>),
     Row(<<"<">>, Null, Null, Null)}

\* TOP (@limit) rows, or a result object without a recordset; which rows the
\* table holds at the time of the query is left open
QueryResultsFor(limit) ==
    {[present |-> TRUE, recordset |-> rs] :
         rs \in StringsUpTo(DbRecords, Min(limit, MaxDbRows))}
        \cup {[present |-> FALSE, recordset |-> <<>>]}

\* Faulty variant: the handler's bindings are module-level, shared by all invocations.
FrameShared(r) == 1

\* the handler's const bindings belong to the invocation that made them
Frame(r) == r

\* input.trim() on a value that is not a string
parseLocationThrows(location) == location = ArrayValue

\* Faulty variant: the error envelope carries err.message with no fallback text.
ErrorBodyNoFallback(message) == [stat |-> StatError, message |-> message]

\* { stat: "error", message: err.message || "Internal server error" }
ErrorBody(message) ==
    [stat |-> StatError, message |-> Or(message, InternalServerError)]

\* { items, next_page: null, generated_in: "0.01s", stat: "ok" }
OkBody(items) ==
    [items |-> items, next_page |-> Null, generated_in |-> GeneratedIn,
     stat |-> StatOk]

\* catch (err) { res.status(500).json(...) }
Catch(r, message) ==
    /\ res' = [res EXCEPT ![r] = [status |-> 500, body |-> ErrorBody(message)]]
    /\ sent' = [sent EXCEPT ![r] = @ + 1]
    /\ pc' = [pc EXCEPT ![r] = "done"]

\* sql.connect(sqlConfig) resolves
PoolConnected ==
    /\ poolPromise.state = "pending"
    /\ poolPromise' = [state |-> "resolved", message |-> <<>>]
    /\ UNCHANGED <<pureVars, pc, req, env, inputs, reply, queries, sent, res>>

\* sql.connect(sqlConfig) rejects
PoolFailed ==
    /\ poolPromise.state = "pending"
    /\ \E m \in ErrorMessages :
           poolPromise' = [state |-> "rejected", message |-> m]
    /\ UNCHANGED <<pureVars, pc, req, env, inputs, reply, queries, sent, res>>

\* a request arrives; the handler runs up to `await poolPromise`
Receive(r) ==
    /\ pc[r] = "idle"
    /\ \E query \in RawQueries :
           /\ req' = [req EXCEPT ![r] = query]
           /\ IF parseLocationThrows(query.location)
              THEN /\ Catch(r, TrimTypeError)
                   /\ UNCHANGED env
              ELSE /\ env' = [env EXCEPT ![Frame(r)] =
                                  [q |-> query.q,
                                   category |-> query.category,
                                   lim |-> LimitClamp(query.limit),
                                   zip5 |-> parseLocation(query.location).zip5,
                                   city |-> parseLocation(query.location).city,
                                   state |-> parseLocation(query.location).state]]
                   /\ pc' = [pc EXCEPT ![r] = "awaitPool"]
                   /\ UNCHANGED <<sent, res>>
    /\ UNCHANGED <<pureVars, poolPromise, inputs, reply, queries>>

\* `await poolPromise` yields the pool; the parameters are bound and the
\* query is issued
BindAndQuery(r) ==
    /\ pc[r] = "awaitPool"
    /\ poolPromise.state = "resolved"
    /\ LET l == env[Frame(r)]
       IN  inputs' = [inputs EXCEPT ![r] =
                          [limit |-> l.lim,
                           category |-> BindCategory(l.category),
                           q |-> BindText(l.q),
                           zip5 |-> Or(l.zip5, Null),
                           city |-> Or(l.city, Null),
                           state |-> Or(l.state, Null)]]
    /\ reply' = [reply EXCEPT ![r].pool = "ok"]
    /\ queries' = [queries EXCEPT ![r] = @ + 1]
    /\ pc' = [pc EXCEPT ![r] = "awaitQuery"]
    /\ UNCHANGED <<pureVars, poolPromise, req, env, sent, res>>

\* `await poolPromise` throws the rejection of sql.connect
PoolRejected(r) ==
    /\ pc[r] = "awaitPool"
    /\ poolPromise.state = "rejected"
    /\ reply' = [reply EXCEPT ![r].pool = "failed",
                              ![r].message = poolPromise.message]
    /\ Catch(r, poolPromise.message)
    /\ UNCHANGED <<pureVars, poolPromise, req, env, inputs, queries>>

\* `await request.query(...)` yields a result; the items are formatted and
\* the feed is sent
QuerySucceeded(r) ==
    /\ pc[r] = "awaitQuery"
    /\ \E result \in QueryResultsFor(inputs[r].limit) :
           /\ reply' = [reply EXCEPT ![r].db = "ok", ![r].result = result]
           /\ res' = [res EXCEPT ![r] =
                          [status |-> 200, body |-> OkBody(FormatItems(result))]]
    /\ sent' = [sent EXCEPT ![r] = @ + 1]
    /\ pc' = [pc EXCEPT ![r] = "done"]
    /\ UNCHANGED <<pureVars, poolPromise, req, env, inputs, queries>>

\* `await request.query(...)` throws
QueryFailed(r) ==
    /\ pc[r] = "awaitQuery"
    /\ \E m \in ErrorMessages :
           /\ reply' = [reply EXCEPT ![r].db = "failed", ![r].message = m]
           /\ Catch(r, m)
    /\ UNCHANGED <<pureVars, poolPromise, req, env, inputs, queries>>

Init ==
    /\ arg = NoResult
    /\ out = NoResult
    /\ phase = "in"
    /\ ServerIdle

Next ==
    \/ PoolConnected
    \/ PoolFailed
    \/ \E r \in Requests : Receive(r)
    \/ \E r \in Requests : BindAndQuery(r)
    \/ \E r \in Requests : PoolRejected(r)
    \/ \E r \in Requests : QuerySucceeded(r)
    \/ \E r \in Requests : QueryFailed(r)

Spec == Init /\ [][Next]_vars

Failed(r) == reply[r].pool = "failed" \/ reply[r].db = "failed"

Succeeded(r) == reply[r].pool = "ok" /\ reply[r].db = "ok"

\* C8: every request ends in exactly one of two response shapes: pool and
\* query both succeeded and the response is 200 with one item per returned
\* row, next_page null and stat "ok"; or the response is 500 with exactly stat
\* "error" and a non-empty message, which is what every failure of the pool
\* or the query gives.  At most one response is written, and a failed
\* request issues no further query.
ResponseShape ==
    \A r \in Requests :
        /\ sent[r] <= 1
        /\ queries[r] <= 1
        /\ sent[r] = 1 <=> pc[r] = "done"
        /\ pc[r] = "done" =>
               \/ /\ Succeeded(r)
                  /\ res[r].status = 200
                  /\ DOMAIN res[r].body = {"items", "next_page", "generated_in", "stat"}
                  /\ res[r].body.stat = StatOk
                  /\ res[r].body.next_page = Null
                  /\ Len(res[r].body.items) = Len(reply[r].result.recordset)
                  /\ \A i \in 1..Len(res[r].body.items) :
                         /\ res[r].body.items[i].id = i
                         /\ res[r].body.items[i].address =
                                FieldText(reply[r].result.recordset[i].Full_Address)
               \/ /\ ~Succeeded(r)
                  /\ res[r].status = 500
                  /\ DOMAIN res[r].body = {"stat", "message"}
                  /\ res[r].body.stat = StatError
                  /\ res[r].body.message # <<>>
        /\ Failed(r) =>
               /\ pc[r] = "done"
               /\ res[r].status = 500
               /\ queries[r] = IF reply[r].pool = "failed" THEN 0 ELSE 1

\* Witness of C8: one request has ended 200 with two items and the other has
\* ended 500 after its query failed with an empty error message.
ResponseShapeWitness ==
    /\ pc[1] = "done"
    /\ res[1].status = 200
    /\ Len(res[1].body.items) = 2
    /\ pc[2] = "done"
    /\ reply[2].db = "failed"
    /\ reply[2].message = <<>>
    /\ res[2].status = 500

Bound(r) == pc[r] \in {"awaitQuery", "done"} /\ reply[r].pool = "ok"

\* C10: whatever the interleaving, the filters bound for a request are
\* those of its own query parameters, and two requests with the same query
\* parameters that were given the same pool and query outcomes have the same
\* bound filters and the same response.
RequestsIndependent ==
    /\ \A r \in Requests :
           Bound(r) =>
               /\ inputs[r].limit = LimitClamp(req[r].limit)
               /\ inputs[r].category = BindCategory(req[r].category)
               /\ inputs[r].q = BindText(req[r].q)
               /\ inputs[r].zip5 = Or(parseLocation(req[r].location).zip5, Null)
               /\ inputs[r].city = Or(parseLocation(req[r].location).city, Null)
               /\ inputs[r].state = Or(parseLocation(req[r].location).state, Null)
    /\ \A r1, r2 \in Requests :
           /\ pc[r1] = "done"
           /\ pc[r2] = "done"
           /\ req[r1] = req[r2]
           /\ reply[r1] = reply[r2]
           => /\ res[r1] = res[r2]
              /\ inputs[r1] = inputs[r2]

\* Witness of C10: two requests with different query parameters are in
\* flight at once, both waiting for their query.
RequestsIndependentWitness ==
    /\ pc[1] = "awaitQuery"
    /\ pc[2] = "awaitQuery"
    /\ req[1] # req[2]
    /\ inputs[1] # inputs[2]


====
